---- MODULE Spec2Model ----
(***************************************************************************)
(* A model of cashola (src/src/index.ts): an object or array is bound to   *)
(* a key, stored as JSON in <storageDir>/<key>.json, and written back on   *)
(* every property assignment made through the returned Proxy.              *)
(*                                                                         *)
(* One Node process at a time is modelled (Restart starts the next one).   *)
(* The filesystem is the pair (dirs, files); a path <<d, k>> stands for    *)
(* path.join(d, k + ".json").  File contents are JSON texts, modelled as   *)
(* sequences of tokens produced by Stringify and decoded by Parse.         *)
(***************************************************************************)
EXTENDS Integers, Sequences, FiniteSets, TLC

VARIABLES
    env,            \* process.env of the running process
    ignoreCashola,  \* Cashola.ignoreCashola
    storageDir,     \* Cashola.storageDir
    keyToFileMap,   \* Cashola.keyToFileMap, own entries in Object.keys order
    dirs,           \* directories that exist
    files,          \* path -> JSON text of the files that exist
    held,           \* key -> what the caller got back from remember*()
    tasks,          \* suspended async work (remember() calls, save() calls)
    last,           \* the step just taken and its outcome
    envVarName,     \* name given by the most recent ignoreCasholaEnvVar option
    explicitIgnore  \* ignoreCashola option of the most recent configure call

vars == <<env, ignoreCashola, storageDir, keyToFileMap, dirs, files, held,
          tasks, last, envVarName, explicitIgnore>>

(***************************************************************************)
(* Bounds                                                                  *)
(***************************************************************************)
MaxNum == 1
MaxLen == 1
MaxTasks == 2

(***************************************************************************)
(* Values                                                                  *)
(***************************************************************************)
Fields == {"count", "bar"}
FieldOrder == <<"bar", "count">>
Scalars == 0..MaxNum

NoFields == [f \in {} |-> 0]

MkObj(f) == [kind |-> "object", fields |-> f, elems |-> <<>>]
MkArr(s) == [kind |-> "array", fields |-> NoFields, elems |-> s]
Null == [kind |-> "null", fields |-> NoFields, elems |-> <<>>]
Prim == [kind |-> "number", fields |-> NoFields, elems |-> <<>>]
Undefined == [kind |-> "undefined", fields |-> NoFields, elems |-> <<>>]

EmptyObj == MkObj(NoFields)
EmptyArr == MkArr(<<>>)

TypeOf(v) == IF v.kind \in {"object", "array", "null"} THEN "object" ELSE v.kind

IsArray(v) == v.kind = "array"

(***************************************************************************)
(* JSON.stringify / JSON.parse.  A text is a sequence of tokens.           *)
(***************************************************************************)
Numerals == <<"0", "1", "2", "3", "4", "5", "6", "7", "8", "9">>

Numeral(n) == Numerals[n + 1]

IsNumeral(t) == \E i \in 1..Len(Numerals) : Numerals[i] = t

NumberOf(t) == (CHOOSE i \in 1..Len(Numerals) : Numerals[i] = t) - 1

RECURSIVE Join(_)
Join(parts) ==
    IF Len(parts) = 0 THEN <<>>
    ELSE IF Len(parts) = 1 THEN parts[1]
    ELSE parts[1] \o <<",">> \o Join(Tail(parts))

\* the members of an object, own enumerable properties only
RECURSIVE Members(_, _)
Members(f, order) ==
    IF Len(order) = 0 THEN <<>>
    ELSE IF order[1] \in DOMAIN f
         THEN <<(<<order[1], ":", Numeral(f[order[1]])>>)>> \o Members(f, Tail(order))
         ELSE Members(f, Tail(order))

Stringify(v) ==
    CASE v.kind = "object" -> <<"{">> \o Join(Members(v.fields, FieldOrder)) \o <<"}">>
      [] v.kind = "array" ->
            <<"[">> \o Join([i \in 1..Len(v.elems) |-> <<Numeral(v.elems[i])>>]) \o <<"]">>
      [] OTHER -> <<"null">>

SyntaxError == [code |-> "SyntaxError", value |-> Null]

Parsed(v) == [code |-> "ok", value |-> v]

\* name ":" number ("," name ":" number)*, a later duplicate name wins
RECURSIVE ParseMembers(_, _)
ParseMembers(t, f) ==
    IF Len(t) < 3 \/ t[1] \notin Fields \/ t[2] # ":" \/ ~IsNumeral(t[3])
    THEN SyntaxError
    ELSE LET g == [n \in DOMAIN f \cup {t[1]} |->
                      IF n = t[1] THEN NumberOf(t[3]) ELSE f[n]]
         IN  IF Len(t) = 3 THEN Parsed(MkObj(g))
             ELSE IF t[4] # "," THEN SyntaxError
             ELSE ParseMembers(SubSeq(t, 5, Len(t)), g)

\* number ("," number)*
RECURSIVE ParseElements(_, _)
ParseElements(t, s) ==
    IF Len(t) < 1 \/ ~IsNumeral(t[1])
    THEN SyntaxError
    ELSE IF Len(t) = 1 THEN Parsed(MkArr(Append(s, NumberOf(t[1]))))
    ELSE IF t[2] # "," THEN SyntaxError
    ELSE ParseElements(SubSeq(t, 3, Len(t)), Append(s, NumberOf(t[1])))

Parse(t) ==
    IF t = <<"null">> THEN Parsed(Null)
    ELSE IF Len(t) < 2 THEN SyntaxError
    ELSE IF t[1] = "{" /\ t[Len(t)] = "}"
         THEN IF Len(t) = 2 THEN Parsed(EmptyObj)
              ELSE ParseMembers(SubSeq(t, 2, Len(t) - 1), NoFields)
    ELSE IF t[1] = "[" /\ t[Len(t)] = "]"
         THEN IF Len(t) = 2 THEN Parsed(EmptyArr)
              ELSE ParseElements(SubSeq(t, 2, Len(t) - 1), <<>>)
    ELSE SyntaxError

\* a file cut short: not a JSON text
Truncated == <<"{">>

(***************************************************************************)
(* The filesystem: fs.writeFile, fs.readFile, fs.mkdir, fs.rm.  A call can *)
(* fail for a reason of the environment (EACCES, EIO, ...), written EIO.   *)
(***************************************************************************)
Dirs == {".cashola", "alt"}
Keys == {"a", "1", "constructor", "a/b"}
Paths == Dirs \X Keys

FsResult(ds, fl, e) == [dirs |-> ds, files |-> fl, err |-> e]

SetFile(fl, p, str) == [q \in DOMAIN fl \cup {p} |-> IF q = p THEN str ELSE fl[q]]

WriteFile(ds, fl, p, str, fail) ==
    IF fail THEN FsResult(ds, fl, "EIO")
    ELSE IF p[1] \notin ds THEN FsResult(ds, fl, "ENOENT")
    ELSE FsResult(ds, SetFile(fl, p, str), "none")

ReadFile(fl, p, fail) ==
    IF p \notin DOMAIN fl THEN [err |-> "ENOENT", text |-> <<>>]
    ELSE IF fail THEN [err |-> "EIO", text |-> <<>>]
    ELSE [err |-> "none", text |-> fl[p]]

\* mkdir(dir, { recursive: true })
MkDir(ds, fl, d, fail) ==
    IF fail THEN FsResult(ds, fl, "EIO") ELSE FsResult(ds \cup {d}, fl, "none")

\* rm(p)
RmFile(ds, fl, p) ==
    IF p \notin DOMAIN fl THEN FsResult(ds, fl, "ENOENT")
    ELSE FsResult(ds, [q \in DOMAIN fl \ {p} |-> fl[q]], "none")

\* rm(dir, { recursive: true, force: true })
RmDir(ds, fl, d) ==
    FsResult(ds \ {d}, [q \in {r \in DOMAIN fl : r[1] # d} |-> fl[q]], "none")

(***************************************************************************)
(* keyToFileMap: a plain object.  Its own entries are kept in the order    *)
(* Object.keys gives them: array-index names ascending, then the others in *)
(* insertion order.  The in operator also sees Object.prototype.           *)
(***************************************************************************)
ObjectPrototypeKeys == {"constructor", "toString", "valueOf", "hasOwnProperty"}

OwnKeys(m) == {m[i].key : i \in DOMAIN m}

KeyIn(key, m) == key \in OwnKeys(m) \/ key \in ObjectPrototypeKeys

FileOf(m, key) == m[CHOOSE i \in DOMAIN m : m[i].key = key].file

IsArrayIndex(key) == IsNumeral(key)

InsertAt(m, i, e) == SubSeq(m, 1, i - 1) \o <<e>> \o SubSeq(m, i, Len(m))

SetKey(m, key, file) ==
    LET e == [key |-> key, file |-> file]
    IN  IF key \in OwnKeys(m)
        THEN [i \in DOMAIN m |-> IF m[i].key = key THEN e ELSE m[i]]
        ELSE IF IsArrayIndex(key)
        THEN InsertAt(m, 1 + Cardinality({i \in DOMAIN m :
                            /\ IsArrayIndex(m[i].key)
                            /\ NumberOf(m[i].key) < NumberOf(key)}), e)
        ELSE Append(m, e)

list == [i \in DOMAIN keyToFileMap |-> keyToFileMap[i].key]

\* isValidFilename of the valid-filename package, on the keys of the model
IsValidFilename(key) == key \notin {"", "a/b", ".", ".."}

createFilePath(dir, key) == <<dir, key>>

(***************************************************************************)
(* checkInput, checkSameType, save, load                                   *)
(***************************************************************************)
\* checkInput without the test of lines 108-110
checkInput_NoDuplicateCheck(m, ign, dir, key, obj) ==
    IF TypeOf(obj) # "object" THEN [outcome |-> "TypeKindError", map |-> m]
    ELSE IF ~IsValidFilename(key) THEN [outcome |-> "InvalidKeyError", map |-> m]
    ELSE [outcome |-> IF ign THEN "ignore" ELSE "proceed",
          map |-> SetKey(m, key, createFilePath(dir, key))]

checkInput(m, ign, dir, key, obj) ==
    IF TypeOf(obj) # "object" THEN [outcome |-> "TypeKindError", map |-> m]
    ELSE IF KeyIn(key, m) THEN [outcome |-> "DuplicateKeyError", map |-> m]
    ELSE IF ~IsValidFilename(key) THEN [outcome |-> "InvalidKeyError", map |-> m]
    ELSE [outcome |-> IF ign THEN "ignore" ELSE "proceed",
          map |-> SetKey(m, key, createFilePath(dir, key))]

\* TRUE when checkSameType throws
checkSameType(a, b) ==
    /\ ~(IsArray(a) /\ IsArray(b))
    /\ ~(~IsArray(a) /\ ~IsArray(b))

\* saveSync that writes where createFilePath points now
saveSync_AtCurrentDir(ds, fl, m, dir, key, obj, fault) ==
    LET str == Stringify(obj)
        w == WriteFile(ds, fl, createFilePath(dir, key), str, fault = "write")
    IN  IF w.err = "none" THEN w
        ELSE IF w.err = "ENOENT"
        THEN LET mk == MkDir(ds, fl, dir, fault = "mkdir")
             IN  IF mk.err # "none" THEN mk
                 ELSE WriteFile(mk.dirs, fl, createFilePath(dir, key), str, fault = "retry")
        ELSE FsResult(ds, fl, "none")

\* saveSync that makes the directory and does not write again
saveSync_NoRetry(ds, fl, m, dir, key, obj, fault) ==
    LET str == Stringify(obj)
        w == WriteFile(ds, fl, FileOf(m, key), str, fault = "write")
    IN  IF w.err = "none" THEN w
        ELSE IF w.err = "ENOENT" THEN MkDir(ds, fl, dir, fault = "mkdir")
        ELSE FsResult(ds, fl, "none")

\* err is what saveSync throws ("none": it returns)
saveSync(ds, fl, m, dir, key, obj, fault) ==
    LET str == Stringify(obj)
        w == WriteFile(ds, fl, FileOf(m, key), str, fault = "write")
    IN  IF w.err = "none" THEN w
        ELSE IF w.err = "ENOENT"
        THEN LET mk == MkDir(ds, fl, dir, fault = "mkdir")
             IN  IF mk.err # "none" THEN mk
                 ELSE WriteFile(mk.dirs, fl, FileOf(m, key), str, fault = "retry")
        ELSE FsResult(ds, fl, "none")

loadSync(fl, m, key, fault) ==
    LET r == ReadFile(fl, FileOf(m, key), fault = "read")
    IN  IF r.err # "none" THEN [code |-> r.err, value |-> Null]
        ELSE Parse(r.text)

\* safeLoadSync that hands back the starter value where it should hand back tmpObj
safeLoadSync_KeepsStarter(fl, m, key, obj, fault) ==
    LET tmpObj == loadSync(fl, m, key, fault)
    IN  IF tmpObj.code # "ok" THEN tmpObj
        ELSE IF checkSameType(obj, tmpObj.value)
        THEN [code |-> "ShapeMismatchError", value |-> Null]
        ELSE [code |-> "ok", value |-> obj]

safeLoadSync(fl, m, key, obj, fault) ==
    LET tmpObj == loadSync(fl, m, key, fault)
    IN  IF tmpObj.code # "ok" THEN tmpObj
        ELSE IF checkSameType(obj, tmpObj.value)
        THEN [code |-> "ShapeMismatchError", value |-> Null]
        ELSE tmpObj

\* new Proxy(target, handler) throws a TypeError for a target that is no object
ProxyThrows(obj) == obj.kind \notin {"object", "array"}

(***************************************************************************)
(* rememberSync / rememberArraySync                                        *)
(***************************************************************************)
Faults == {"none", "read", "write", "mkdir", "retry"}

Outcome(m, fsr, res, err, value, read) ==
    [map |-> m, dirs |-> fsr.dirs, files |-> fsr.files, res |-> res, err |-> err,
     value |-> value, read |-> read]

\* return new Proxy(obj, handler)
ReturnProxy(m, fsr, obj, read) ==
    IF ProxyThrows(obj) THEN Outcome(m, fsr, "error", "TypeError", obj, read)
    ELSE Outcome(m, fsr, "live", "none", obj, read)

rememberSync(ds, fl, m, ign, dir, key, obj, fault) ==
    LET ci == checkInput(m, ign, dir, key, obj)
        now == FsResult(ds, fl, "none")
    IN  IF ci.outcome \notin {"ignore", "proceed"}
        THEN Outcome(ci.map, now, "error", ci.outcome, obj, "none")
        ELSE IF ci.outcome = "ignore"
        THEN Outcome(ci.map, now, "raw", "none", obj, "none")
        ELSE LET ld == safeLoadSync(fl, ci.map, key, obj, fault)
             IN  IF ld.code = "ok" THEN ReturnProxy(ci.map, now, ld.value, ld.code)
                 ELSE IF ld.code = "ENOENT"
                 THEN LET sv == saveSync(ds, fl, ci.map, dir, key, obj, fault)
                      IN  IF sv.err # "none"
                          THEN Outcome(ci.map, sv, "error", sv.err, obj, ld.code)
                          ELSE ReturnProxy(ci.map, sv, obj, ld.code)
                 ELSE ReturnProxy(ci.map, now, obj, ld.code)

\* the fs calls a save makes, given which of them fails
SaveCalls(ds, p, fault) ==
    IF fault = "write" \/ p[1] \in ds THEN {"write"}
    ELSE IF fault = "mkdir" THEN {"write", "mkdir"}
    ELSE {"write", "mkdir", "retry"}

(***************************************************************************)
(* What the caller holds, and the record of the last step                  *)
(***************************************************************************)
\* frozen: Object.freeze has been applied to the target
NotHeld == [kind |-> "none", sync |-> FALSE, obj |-> Null, frozen |-> FALSE]

Held(kind, sync, obj) == [kind |-> kind, sync |-> sync, obj |-> obj, frozen |-> FALSE]

Step(op, key, arg, res, err, read, text, fault) ==
    [op |-> op, phase |-> "call", key |-> key, arg |-> arg, res |-> res, err |-> err,
     read |-> read, text |-> text, fault |-> fault]

\* the same for a step that resumes a suspended call
Resumed(op, key, arg, res, err, read, text, fault) ==
    [Step(op, key, arg, res, err, read, text, fault) EXCEPT !.phase = "resume"]

TextAt(fl, p) == IF p \in DOMAIN fl THEN fl[p] ELSE <<>>

SyncEntries == {"rememberSync", "rememberArraySync"}
AsyncEntries == {"remember", "rememberArray"}

\* the default value of the obj parameter
DefaultObj(entry) ==
    IF entry \in {"rememberArray", "rememberArraySync"} THEN EmptyArr ELSE EmptyObj

Starters == {Undefined, Null, Prim, MkObj([f \in {"count"} |-> 0]), MkArr(<<0>>)}

RememberSyncCall(entry, key, arg, fault) ==
    /\ LET obj == IF arg = Undefined THEN DefaultObj(entry) ELSE arg
           p == createFilePath(storageDir, key)
           r == rememberSync(dirs, files, keyToFileMap, ignoreCashola, storageDir,
                             key, obj, fault)
       IN  /\ \/ fault = "none"
              \/ /\ r.read # "none"
                 /\ fault \in (IF p \in DOMAIN files THEN {"read"} ELSE {}) \cup
                        (IF r.read = "ENOENT" THEN SaveCalls(dirs, p, fault) ELSE {})
           /\ keyToFileMap' = r.map
           /\ dirs' = r.dirs
           /\ files' = r.files
           /\ held' = IF r.res = "live" THEN [held EXCEPT ![key] = Held("proxy", TRUE, r.value)]
                      ELSE IF r.res = "raw" THEN [held EXCEPT ![key] = Held("raw", TRUE, r.value)]
                      ELSE held
           /\ last' = Step(entry, key, obj, r.res, r.err, r.read, TextAt(files, p), fault)
    /\ UNCHANGED <<env, ignoreCashola, storageDir, tasks, envVarName, explicitIgnore>>

(***************************************************************************)
(* configure                                                               *)
(***************************************************************************)
EnvNames == {"IGNORE_CASHOLA", "IGNORE"}
EnvValues == {"true", "unset"}

\* a Config: "" and "undefined" stand for an option that is not given
Configs ==
    [storageDir : Dirs \cup {""},
     ignoreCasholaEnvVar : EnvNames \cup {""},
     ignoreCashola : {"true", "false", "undefined"}]

configureIgnore(ign, e, config) ==
    LET fromEnv == IF config.ignoreCasholaEnvVar # ""
                   THEN e[config.ignoreCasholaEnvVar] = "true"
                   ELSE ign
    IN  IF config.ignoreCashola = "true" THEN TRUE ELSE fromEnv

configureStorageDir(dir, config) ==
    IF config.storageDir # "" THEN config.storageDir ELSE dir

Configure(config) ==
    /\ storageDir' = configureStorageDir(storageDir, config)
    /\ ignoreCashola' = configureIgnore(ignoreCashola, env, config)
    /\ envVarName' = IF config.ignoreCasholaEnvVar # ""
                     THEN config.ignoreCasholaEnvVar ELSE envVarName
    /\ explicitIgnore' = (config.ignoreCashola = "true")
    /\ last' = Step("configure", "", Null, "ok", "none", "none", <<>>, "none")
    /\ UNCHANGED <<env, keyToFileMap, dirs, files, held, tasks>>

(***************************************************************************)
(* getHandlerSync / getHandler: the set trap of the returned Proxy         *)
(***************************************************************************)
Min(a, b) == IF a < b THEN a ELSE b

\* the property names the model assigns to: fields, and array indices "0", "1", ...
Props == Fields \cup {Numeral(i) : i \in 0..(MaxLen - 1)}

\* those an assignment to obj names: an own or new field, an index up to the length
PropsOf(obj) ==
    IF obj.kind = "array" THEN {Numeral(i) : i \in 0..(Min(Len(obj.elems) + 1, MaxLen) - 1)}
    ELSE IF obj.kind = "object" THEN Fields
    ELSE {}

\* Reflect.set(obj, prop, value) on an ordinary extensible object or array
ReflectSet(obj, prop, value) ==
    IF obj.kind = "array"
    THEN LET at == NumberOf(prop) + 1
             n == IF at > Len(obj.elems) THEN at ELSE Len(obj.elems)
         IN  [ok |-> TRUE,
              obj |-> MkArr([i \in 1..n |-> IF i = at THEN value ELSE obj.elems[i]])]
    ELSE [ok |-> TRUE,
          obj |-> MkObj([f \in DOMAIN obj.fields \cup {prop} |->
                            IF f = prop THEN value ELSE obj.fields[f]])]

\* Reflect.set(obj, prop, value) on the target of a binding: a frozen target rejects it
ReflectSetOn(target, prop, value) ==
    IF target.frozen THEN [ok |-> FALSE, obj |-> target.obj]
    ELSE ReflectSet(target.obj, prop, value)

\* the set trap that saves whatever Reflect.set returned
handlerSyncSet_SavesAnyway(ds, fl, m, dir, key, target, prop, value, fault) ==
    LET rs == ReflectSetOn(target, prop, value)
    IN  [obj |-> rs.obj, fs |-> saveSync(ds, fl, m, dir, key, rs.obj, fault),
         ret |-> rs.ok]

\* the set trap of getHandlerSync: err is what the assignment throws
handlerSyncSet(ds, fl, m, dir, key, target, prop, value, fault) ==
    LET rs == ReflectSetOn(target, prop, value)
    IN  IF ~rs.ok
        THEN [obj |-> target.obj, fs |-> FsResult(ds, fl, "none"), ret |-> FALSE]
        ELSE [obj |-> rs.obj, fs |-> saveSync(ds, fl, m, dir, key, rs.obj, fault),
              ret |-> TRUE]

SetSync(key, prop, value, fault) ==
    /\ held[key].kind = "proxy"
    /\ held[key].sync
    /\ prop \in PropsOf(held[key].obj)
    /\ fault \in {"none"} \cup SaveCalls(dirs, FileOf(keyToFileMap, key), fault)
    /\ held[key].frozen => fault = "none"
    /\ LET r == handlerSyncSet(dirs, files, keyToFileMap, storageDir, key,
                               held[key], prop, value, fault)
       IN  /\ held' = [held EXCEPT ![key].obj = r.obj]
           /\ dirs' = r.fs.dirs
           /\ files' = r.fs.files
           /\ last' = Step("set", key, r.obj,
                           IF r.fs.err # "none" THEN "error" ELSE IF r.ret THEN "ok" ELSE "false",
                           r.fs.err, "none", <<>>, fault)
    /\ UNCHANGED <<env, ignoreCashola, storageDir, keyToFileMap, tasks, envVarName,
                   explicitIgnore>>

\* an assignment on the plain value that remember*() returned under ignoreCashola
SetRaw(key, prop, value) ==
    /\ held[key].kind = "raw"
    /\ prop \in PropsOf(held[key].obj)
    /\ held' = [held EXCEPT ![key].obj = ReflectSet(held[key].obj, prop, value).obj]
    /\ last' = Step("set", key, held'[key].obj, "ok", "none", "none", <<>>, "none")
    /\ UNCHANGED <<env, ignoreCashola, storageDir, keyToFileMap, dirs, files, tasks,
                   envVarName, explicitIgnore>>

(***************************************************************************)
(* Suspended async work.  A task is a remember()/rememberArray() call      *)
(* (entry names it) or a save() started by the set trap (entry "save");    *)
(* pc is the fs call it awaits.                                            *)
(***************************************************************************)
Task(entry, key, obj, str, pc, dir) ==
    [entry |-> entry, key |-> key, obj |-> obj, str |-> str, pc |-> pc, dir |-> dir]

\* the set trap that drops the writes still pending for the key
SetAsync_Supersedes(key, prop, value) ==
    /\ held[key].kind = "proxy"
    /\ ~held[key].sync
    /\ prop \in PropsOf(held[key].obj)
    /\ Cardinality(tasks) < MaxTasks
    /\ LET rs == ReflectSetOn(held[key], prop, value)
       IN  /\ held' = [held EXCEPT ![key].obj = rs.obj]
           /\ tasks' = IF rs.ok
                       THEN {t \in tasks : t.key # key \/ t.entry # "save"} \cup
                            {Task("save", key, Null, Stringify(rs.obj), "write", "")}
                       ELSE tasks
           /\ last' = Step("set", key, rs.obj, IF rs.ok THEN "ok" ELSE "false",
                           "none", "none", <<>>, "none")
    /\ UNCHANGED <<env, ignoreCashola, storageDir, keyToFileMap, dirs, files,
                   envVarName, explicitIgnore>>

\* the set trap of getHandler: save() runs up to its first await, the write is pending
SetAsync(key, prop, value) ==
    /\ held[key].kind = "proxy"
    /\ ~held[key].sync
    /\ prop \in PropsOf(held[key].obj)
    /\ Cardinality(tasks) < MaxTasks
    /\ LET rs == ReflectSetOn(held[key], prop, value)
       IN  /\ held' = [held EXCEPT ![key].obj = rs.obj]
           /\ tasks' = IF rs.ok
                       THEN tasks \cup {Task("save", key, Null, Stringify(rs.obj), "write", "")}
                       ELSE tasks
           /\ last' = Step("set", key, rs.obj, IF rs.ok THEN "ok" ELSE "false",
                           "none", "none", <<>>, "none")
    /\ UNCHANGED <<env, ignoreCashola, storageDir, keyToFileMap, dirs, files,
                   envVarName, explicitIgnore>>

\* remember / rememberArray whose checkInput does not look the key up
RememberCall_NoRegistryCheck(entry, key, arg) ==
    /\ Cardinality(tasks) < MaxTasks
    /\ LET obj == IF arg = Undefined THEN DefaultObj(entry) ELSE arg
           ci == checkInput_NoDuplicateCheck(keyToFileMap, ignoreCashola, storageDir, key, obj)
       IN  /\ keyToFileMap' = ci.map
           /\ tasks' = IF ci.outcome = "proceed"
                       THEN tasks \cup {Task(entry, key, obj, <<>>, "read", "")}
                       ELSE tasks
           /\ held' = IF ci.outcome = "ignore"
                      THEN [held EXCEPT ![key] = Held("raw", FALSE, obj)]
                      ELSE held
           /\ last' = Step(entry, key, obj,
                           CASE ci.outcome = "proceed" -> "pending"
                             [] ci.outcome = "ignore" -> "raw"
                             [] OTHER -> "error",
                           IF ci.outcome \in {"proceed", "ignore"} THEN "none" ELSE ci.outcome,
                           "none", <<>>, "none")
    /\ UNCHANGED <<env, ignoreCashola, storageDir, dirs, files, envVarName, explicitIgnore>>

\* remember / rememberArray up to the first await
RememberCall(entry, key, arg) ==
    /\ Cardinality(tasks) < MaxTasks
    /\ LET obj == IF arg = Undefined THEN DefaultObj(entry) ELSE arg
           ci == checkInput(keyToFileMap, ignoreCashola, storageDir, key, obj)
       IN  /\ keyToFileMap' = ci.map
           /\ tasks' = IF ci.outcome = "proceed"
                       THEN tasks \cup {Task(entry, key, obj, <<>>, "read", "")}
                       ELSE tasks
           /\ held' = IF ci.outcome = "ignore"
                      THEN [held EXCEPT ![key] = Held("raw", FALSE, obj)]
                      ELSE held
           /\ last' = Step(entry, key, obj,
                           CASE ci.outcome = "proceed" -> "pending"
                             [] ci.outcome = "ignore" -> "raw"
                             [] OTHER -> "error",
                           IF ci.outcome \in {"proceed", "ignore"} THEN "none" ELSE ci.outcome,
                           "none", <<>>, "none")
    /\ UNCHANGED <<env, ignoreCashola, storageDir, dirs, files, envVarName, explicitIgnore>>

\* load / safeLoad once readFile has settled
safeLoad(fl, m, key, obj, fault) == safeLoadSync(fl, m, key, obj, fault)

\* a task is over: a remember() call settles, a save() of the set trap is dropped
Settle(t, res, err, value, read, text, fault) ==
    /\ tasks' = tasks \ {t}
    /\ held' = IF t.entry # "save" /\ res = "live"
               THEN [held EXCEPT ![t.key] = Held("proxy", FALSE, value)]
               ELSE held
    /\ last' = Resumed(t.entry, t.key, t.obj, res, err, read, text, fault)

Finish(t, value, read, text, fault) ==
    IF t.entry = "save" THEN Settle(t, "ok", "none", value, read, text, fault)
    ELSE IF ProxyThrows(value) THEN Settle(t, "error", "TypeError", value, read, text, fault)
    ELSE Settle(t, "live", "none", value, read, text, fault)

Reject(t, err, fault) ==
    Settle(t, IF t.entry = "save" THEN "unhandled" ELSE "error", err, t.obj, "ENOENT", <<>>, fault)

Suspend(t, pc, str, dir, fault) ==
    /\ tasks' = (tasks \ {t}) \cup {Task(t.entry, t.key, t.obj, str, pc, dir)}
    /\ held' = held
    /\ last' = Resumed(t.entry, t.key, t.obj, "pending", "none", "none", <<>>, fault)

\* the awaited readFile of remember() settles
ReadSettles(t, fail) ==
    /\ t \in tasks
    /\ t.pc = "read"
    /\ fail => FileOf(keyToFileMap, t.key) \in DOMAIN files
    /\ LET fault == IF fail THEN "read" ELSE "none"
           p == FileOf(keyToFileMap, t.key)
           ld == safeLoad(files, keyToFileMap, t.key, t.obj, fault)
       IN  IF ld.code = "ok" THEN Finish(t, ld.value, ld.code, TextAt(files, p), fault)
           ELSE IF ld.code = "ENOENT" THEN Suspend(t, "write", Stringify(t.obj), "", fault)
           ELSE Finish(t, t.obj, ld.code, TextAt(files, p), fault)
    /\ UNCHANGED <<env, ignoreCashola, storageDir, keyToFileMap, dirs, files,
                   envVarName, explicitIgnore>>

\* the first writeFile of save() settles and nothing reaches the file
WriteSettles_Drops(t, fail) ==
    /\ t \in tasks
    /\ t.pc = "write"
    /\ LET fault == IF fail THEN "write" ELSE "none"
           w == WriteFile(dirs, files, FileOf(keyToFileMap, t.key), t.str, fail)
       IN  /\ files' = files
           /\ IF w.err = "ENOENT" THEN Suspend(t, "mkdir", t.str, storageDir, fault)
              ELSE Finish(t, t.obj, "ENOENT", <<>>, fault)
    /\ UNCHANGED <<env, ignoreCashola, storageDir, keyToFileMap, dirs, envVarName,
                   explicitIgnore>>

\* the first writeFile of save() settles
WriteSettles(t, fail) ==
    /\ t \in tasks
    /\ t.pc = "write"
    /\ LET fault == IF fail THEN "write" ELSE "none"
           w == WriteFile(dirs, files, FileOf(keyToFileMap, t.key), t.str, fail)
       IN  /\ files' = w.files
           /\ IF w.err = "ENOENT" THEN Suspend(t, "mkdir", t.str, storageDir, fault)
              ELSE Finish(t, t.obj, "ENOENT", <<>>, fault)
    /\ UNCHANGED <<env, ignoreCashola, storageDir, keyToFileMap, dirs, envVarName,
                   explicitIgnore>>

\* the mkdir of save() settles
MkdirSettles(t, fail) ==
    /\ t \in tasks
    /\ t.pc = "mkdir"
    /\ LET fault == IF fail THEN "mkdir" ELSE "none"
           mk == MkDir(dirs, files, t.dir, fail)
       IN  /\ dirs' = mk.dirs
           /\ IF mk.err # "none" THEN Reject(t, mk.err, fault)
              ELSE Suspend(t, "retry", t.str, t.dir, fault)
    /\ UNCHANGED <<env, ignoreCashola, storageDir, keyToFileMap, files, envVarName,
                   explicitIgnore>>

\* the second writeFile of save() settles
RetrySettles(t, fail) ==
    /\ t \in tasks
    /\ t.pc = "retry"
    /\ LET fault == IF fail THEN "retry" ELSE "none"
           w == WriteFile(dirs, files, FileOf(keyToFileMap, t.key), t.str, fail)
       IN  /\ files' = w.files
           /\ IF w.err # "none" THEN Reject(t, w.err, fault)
              ELSE Finish(t, t.obj, "ENOENT", <<>>, fault)
    /\ UNCHANGED <<env, ignoreCashola, storageDir, keyToFileMap, dirs, envVarName,
                   explicitIgnore>>

\* Object.freeze on a live binding: the Proxy has no trap for it, the target is frozen
Freeze(key) ==
    /\ held[key].kind = "proxy"
    /\ ~held[key].frozen
    /\ held' = [held EXCEPT ![key].frozen = TRUE]
    /\ last' = Step("freeze", key, held[key].obj, "ok", "none", "none", <<>>, "none")
    /\ UNCHANGED <<env, ignoreCashola, storageDir, keyToFileMap, dirs, files, tasks,
                   envVarName, explicitIgnore>>

(***************************************************************************)
(* clearSync / clear, clearAllSync / clearAll                              *)
(***************************************************************************)
clearSync(ds, fl, dir, key) == RmFile(ds, fl, createFilePath(dir, key))

\* clearAllSync without recursive: true
clearAllSync_NotRecursive(ds, fl, dir) ==
    IF \E p \in DOMAIN fl : p[1] = dir THEN FsResult(ds, fl, "ENOTEMPTY")
    ELSE RmDir(ds, fl, dir)

clearAllSync(ds, fl, dir) == RmDir(ds, fl, dir)

Clear(entry, key) ==
    /\ LET r == clearSync(dirs, files, storageDir, key)
       IN  /\ dirs' = r.dirs
           /\ files' = r.files
           /\ last' = Step(entry, key, Null, IF r.err = "none" THEN "ok" ELSE "error",
                           r.err, "none", <<>>, "none")
    /\ UNCHANGED <<env, ignoreCashola, storageDir, keyToFileMap, held, tasks, envVarName,
                   explicitIgnore>>

ClearAll(entry) ==
    /\ LET r == clearAllSync(dirs, files, storageDir)
       IN  /\ dirs' = r.dirs
           /\ files' = r.files
           /\ last' = Step(entry, "", Null, IF r.err = "none" THEN "ok" ELSE "error",
                           r.err, "none", <<>>, "none")
    /\ UNCHANGED <<env, ignoreCashola, storageDir, keyToFileMap, held, tasks, envVarName,
                   explicitIgnore>>

(***************************************************************************)
(* The process ends and the next one starts: a new Cashola instance        *)
(***************************************************************************)
Restart ==
    /\ tasks = {}
    /\ ignoreCashola' = (env["IGNORE_CASHOLA"] = "true")
    /\ storageDir' = ".cashola"
    /\ keyToFileMap' = <<>>
    /\ held' = [k \in Keys |-> NotHeld]
    /\ envVarName' = "IGNORE_CASHOLA"
    /\ explicitIgnore' = FALSE
    /\ last' = Step("restart", "", Null, "ok", "none", "none", <<>>, "none")
    /\ UNCHANGED <<env, dirs, files, tasks>>

(***************************************************************************)
(* Specifications                                                          *)
(***************************************************************************)
Disk(ds, fl) == [dirs |-> ds, files |-> fl]

OneFile(t) == Disk({".cashola"}, [p \in {<<".cashola", "a">>} |-> t])

\* what earlier processes (or anything else) left on disk
InitDisks ==
    {Disk({}, <<>>), OneFile(Truncated),
     OneFile(Stringify(MkObj([f \in {"count"} |-> 1]))), OneFile(Stringify(EmptyArr))}

InitWith(e, disk) ==
    /\ env = e
    /\ ignoreCashola = (e["IGNORE_CASHOLA"] = "true")
    /\ storageDir = ".cashola"
    /\ keyToFileMap = <<>>
    /\ dirs = disk.dirs
    /\ files = disk.files
    /\ held = [k \in Keys |-> NotHeld]
    /\ tasks = {}
    /\ last = Step("start", "", Null, "ok", "none", "none", <<>>, "none")
    /\ envVarName = "IGNORE_CASHOLA"
    /\ explicitIgnore = FALSE

NoEnv == [n \in EnvNames |-> "unset"]

Init == \E disk \in InitDisks : InitWith(NoEnv, disk)

(* Spec: one process after another binds keys through the four entry      *)
(* points, assigns through the blocking proxies and clears storage, on a   *)
(* filesystem whose calls can fail.                                        *)
BindKeys == {"a", "a/b"}

Next ==
    \/ \E entry \in SyncEntries, key \in BindKeys, arg \in Starters, fault \in Faults :
          RememberSyncCall(entry, key, arg, fault)
    \/ \E key \in BindKeys, prop \in Props, value \in Scalars, fault \in Faults :
          SetSync(key, prop, value, fault)
    \/ \E entry \in AsyncEntries, key \in BindKeys, arg \in Starters :
          RememberCall(entry, key, arg)
    \/ \E t \in tasks, fail \in BOOLEAN : ReadSettles(t, fail)
    \/ \E t \in tasks, fail \in BOOLEAN : WriteSettles(t, fail)
    \/ \E t \in tasks, fail \in BOOLEAN : MkdirSettles(t, fail)
    \/ \E t \in tasks, fail \in BOOLEAN : RetrySettles(t, fail)
    \/ \E key \in BindKeys : Clear("clearSync", key)
    \/ ClearAll("clearAllSync")
    \/ Restart

Spec == Init /\ [][Next]_vars

(* SpecIgnore: the ignore switch and the registry, through all four entry  *)
(* points, on a filesystem whose calls succeed.                            *)
IgnoreStarters == {Undefined, Null, Prim, MkObj([f \in {"count"} |-> 0])}

IgnoreDisks == {Disk({}, <<>>), OneFile(Stringify(MkObj([f \in {"count"} |-> 1])))}

IgnoreEnvs == {e \in [EnvNames -> EnvValues] : e["IGNORE"] = "unset"}

NoConfig == [storageDir |-> "", ignoreCasholaEnvVar |-> "", ignoreCashola |-> "undefined"]

IgnoreConfigs ==
    {[NoConfig EXCEPT !.ignoreCashola = "true"],
     [NoConfig EXCEPT !.ignoreCasholaEnvVar = "IGNORE"]}

InitIgnore == \E e \in IgnoreEnvs, disk \in IgnoreDisks : InitWith(e, disk)

NextIgnore ==
    \/ \E config \in IgnoreConfigs : Configure(config)
    \/ \E entry \in SyncEntries, key \in BindKeys, arg \in IgnoreStarters :
          RememberSyncCall(entry, key, arg, "none")
    \/ \E entry \in AsyncEntries, key \in BindKeys, arg \in IgnoreStarters :
          RememberCall(entry, key, arg)
    \/ \E t \in tasks : ReadSettles(t, FALSE)
    \/ \E t \in tasks : WriteSettles(t, FALSE)
    \/ \E t \in tasks : MkdirSettles(t, FALSE)
    \/ \E t \in tasks : RetrySettles(t, FALSE)
    \/ \E key \in BindKeys, prop \in Props, value \in Scalars : SetRaw(key, prop, value)
    \/ \E key \in BindKeys : Clear("clearSync", key)
    \/ Restart

SpecIgnore == InitIgnore /\ [][NextIgnore]_vars

(* SpecDir: the storage directory is reconfigured while keys are bound,    *)
(* assigned to and cleared; two valid keys, a filesystem whose calls        *)
(* succeed.  clear() and clearAll() are taken with their awaited fs.rm.     *)
DirKeys == {"a", "1"}

DirStarters == {Undefined}

DirConfigs == {[NoConfig EXCEPT !.storageDir = d] : d \in Dirs}

ClearEntries == {"clearSync", "clear"}

ClearAllEntries == {"clearAllSync", "clearAll"}

InitDir == InitWith(NoEnv, Disk({}, <<>>))

NextDir ==
    \/ \E config \in DirConfigs : Configure(config)
    \/ \E key \in DirKeys, arg \in DirStarters :
          RememberSyncCall("rememberSync", key, arg, "none")
    \/ \E key \in DirKeys, prop \in {"count"}, value \in Scalars :
          SetSync(key, prop, value, "none")
    \/ \E entry \in ClearEntries, key \in DirKeys : Clear(entry, key)
    \/ \E entry \in ClearAllEntries : ClearAll(entry)
    \/ Restart

SpecDir == InitDir /\ [][NextDir]_vars

(* SpecMove: one key is bound, blocking or non-blocking, and assigned to   *)
(* while the storage directory is reconfigured and cleared.                *)
InitMove == InitWith(NoEnv, Disk({}, <<>>))

NextMove ==
    \/ \E config \in DirConfigs : Configure(config)
    \/ RememberSyncCall("rememberSync", "a", Undefined, "none")
    \/ RememberCall("remember", "a", Undefined)
    \/ \E value \in Scalars : SetSync("a", "count", value, "none")
    \/ \E value \in Scalars : SetAsync("a", "count", value)
    \/ \E t \in tasks : ReadSettles(t, FALSE)
    \/ \E t \in tasks : WriteSettles(t, FALSE)
    \/ \E t \in tasks : MkdirSettles(t, FALSE)
    \/ \E t \in tasks : RetrySettles(t, FALSE)
    \/ ClearAll("clearAllSync")
    \/ Restart

SpecMove == InitMove /\ [][NextMove]_vars

(* SpecAsync: one key, bound blocking or non-blocking; assignments whose   *)
(* writes are pending, complete in any order or fail; the target can be    *)
(* frozen.                                                                 *)
InitAsync == InitWith(NoEnv, Disk({}, <<>>))

NextAsync ==
    \/ RememberSyncCall("rememberSync", "a", Undefined, "none")
    \/ RememberCall("remember", "a", Undefined)
    \/ \E value \in Scalars, fault \in Faults : SetSync("a", "count", value, fault)
    \/ \E value \in Scalars : SetAsync("a", "count", value)
    \/ \E t \in tasks, fail \in BOOLEAN : ReadSettles(t, fail)
    \/ \E t \in tasks, fail \in BOOLEAN : WriteSettles(t, fail)
    \/ \E t \in tasks, fail \in BOOLEAN : MkdirSettles(t, fail)
    \/ \E t \in tasks, fail \in BOOLEAN : RetrySettles(t, fail)
    \/ Freeze("a")
    \/ ClearAll("clearAllSync")
    \/ Restart

SpecAsync == InitAsync /\ [][NextAsync]_vars

(* SpecLive: one key bound non-blocking and assigned to, on a filesystem   *)
(* whose calls succeed.  Every fs call that was started completes: the     *)
(* event loop runs the continuation of each pending promise.               *)
InitLive == InitWith(NoEnv, Disk({}, <<>>))

NextLive ==
    \/ RememberCall("remember", "a", Undefined)
    \/ \E prop \in Fields, value \in Scalars : SetAsync("a", prop, value)
    \/ \E t \in tasks : ReadSettles(t, FALSE)
    \/ \E t \in tasks : WriteSettles(t, FALSE)
    \/ \E t \in tasks : MkdirSettles(t, FALSE)
    \/ \E t \in tasks : RetrySettles(t, FALSE)
    \/ Restart

\* the values "a" takes in SpecLive, and the save() a set trap starts for one
LiveValues == {MkObj(f) : f \in UNION {[D -> Scalars] : D \in SUBSET Fields}}

SaveOf(key, v) == Task("save", key, Null, Stringify(v), "write", "")

\* every pending call there can be
LiveTasks ==
    {SaveOf("a", v) : v \in LiveValues} \cup
    {Task("remember", "a", EmptyObj, <<>>, "read", ""),
     Task("remember", "a", EmptyObj, Stringify(EmptyObj), "write", ""),
     Task("remember", "a", EmptyObj, Stringify(EmptyObj), "mkdir", ".cashola"),
     Task("remember", "a", EmptyObj, Stringify(EmptyObj), "retry", ".cashola")}

Settles(t) ==
    \/ ReadSettles(t, FALSE)
    \/ WriteSettles(t, FALSE)
    \/ MkdirSettles(t, FALSE)
    \/ RetrySettles(t, FALSE)

SpecLive ==
    /\ InitLive
    /\ [][NextLive]_vars
    /\ \A t \in LiveTasks : WF_vars(Settles(t))

(* SpecRace: binds of the same key are started while an earlier one is     *)
(* suspended on its fs calls, which complete in any order or fail; with    *)
(* and without the ignore switch.                                          *)
RaceKeys == {"a", "constructor"}

RaceStarters == {Undefined, Null, Prim, MkArr(<<0>>)}

RaceConfigs == {[NoConfig EXCEPT !.ignoreCashola = "true"]}

InitRace == \E disk \in IgnoreDisks : InitWith(NoEnv, disk)

NextRace ==
    \/ \E config \in RaceConfigs : Configure(config)
    \/ \E entry \in AsyncEntries, key \in RaceKeys, arg \in RaceStarters :
          RememberCall(entry, key, arg)
    \/ \E entry \in SyncEntries, key \in RaceKeys, arg \in RaceStarters :
          RememberSyncCall(entry, key, arg, "none")
    \/ \E t \in tasks, fail \in BOOLEAN : ReadSettles(t, fail)
    \/ \E t \in tasks, fail \in BOOLEAN : WriteSettles(t, fail)
    \/ \E t \in tasks, fail \in BOOLEAN : MkdirSettles(t, fail)
    \/ \E t \in tasks, fail \in BOOLEAN : RetrySettles(t, fail)
    \/ Restart

SpecRace == InitRace /\ [][NextRace]_vars

(* SpecConfig: any sequence of configure calls in any environment, and the *)
(* binds that read the configuration.                                      *)
InitConfig == \E e \in [EnvNames -> EnvValues] : InitWith(e, Disk({}, <<>>))

NextConfig ==
    \/ \E config \in Configs : Configure(config)
    \/ RememberSyncCall("rememberSync", "a", Undefined, "none")
    \/ Restart

SpecConfig == InitConfig /\ [][NextConfig]_vars

(***************************************************************************)
(* What the claims speak of                                                *)
(***************************************************************************)
\* every mapping and sequence value within the bounds
Mappings == {MkObj(f) : f \in UNION {[D -> Scalars] : D \in SUBSET Fields}}
Sequences == {MkArr(s) : s \in UNION {[1..n -> Scalars] : n \in 0..MaxLen}}

IsStructured(v) == v.kind \in {"object", "array"}

\* the last step is a bind call that got past checkInput and has settled
BindSettled ==
    /\ last.op \in SyncEntries \cup AsyncEntries
    /\ last.read # "none"
    /\ last.res \in {"live", "error"}

\* ... and its readFile delivered the file's text, which decodes to a mapping or sequence
BindReadStored ==
    /\ BindSettled
    /\ last.fault # "read"
    /\ Parse(last.text).code = "ok"
    /\ IsStructured(Parse(last.text).value)

LastFile == FileOf(keyToFileMap, last.key)

\* C1: a bind over a stored value of one shape with a starter of the other shape
\* fails with the shape-mismatch error, and no live binding is returned.
C1_ShapeMismatchFails ==
    (/\ BindReadStored
     /\ IsStructured(last.arg)
     /\ Parse(last.text).value.kind # last.arg.kind)
    => (last.res = "error" /\ last.err = "ShapeMismatchError")

\* C2: a bind over a stored value s of the starter's shape returns a live value
\* equal to s, and the file still holds s when the bind returns.
C2_StoredValueWins ==
    (/\ BindReadStored
     /\ Parse(last.text).value.kind = last.arg.kind)
    => (/\ last.res = "live"
        /\ held[last.key].kind = "proxy"
        /\ held[last.key].obj = Parse(last.text).value
        /\ LastFile \in DOMAIN files
        /\ files[LastFile] = last.text)

C2_Witness ==
    /\ BindReadStored
    /\ last.arg = MkObj([f \in {"count"} |-> 0])
    /\ held[last.key].obj = MkObj([f \in {"count"} |-> 1])
    /\ last.res = "live"

\* a non-blocking bind whose directory clearAll removed between its mkdir and its
\* second writeFile: that write is refused, an I/O error of the creation path
DirRemovedUnderBind == last.op \in AsyncEntries /\ last.err = "ENOENT"

\* C3: a bind of a mapping or sequence v that finds no file creates the file holding
\* v (and the directory, when it was missing), and a bind that reads a file holding
\* the text of v returns a value equal to v for any starter of v's shape.  (The
\* filesystem serves the calls of both binds.)
C3_CreationRoundTrips ==
    /\ (/\ BindSettled
        /\ last.read = "ENOENT"
        /\ last.fault = "none"
        /\ ~DirRemovedUnderBind
        /\ IsStructured(last.arg))
       => (/\ last.res = "live"
           /\ held[last.key].obj = last.arg
           /\ LastFile[1] \in dirs
           /\ LastFile \in DOMAIN files
           /\ files[LastFile] = Stringify(last.arg)
           /\ Parse(files[LastFile]) = Parsed(last.arg))
    /\ \A v \in Mappings \cup Sequences :
          (/\ BindSettled
           /\ last.fault # "read"
           /\ last.text = Stringify(v)
           /\ last.arg.kind = v.kind)
          => (last.res = "live" /\ held[last.key].obj = v)

C3_Witness ==
    /\ BindSettled
    /\ last.read = "ENOENT"
    /\ last.fault = "none"
    /\ last.arg = MkArr(<<0>>)
    /\ last.res = "live"
    /\ files[LastFile] = Stringify(MkArr(<<0>>))

\* C4: whenever an assignment through a blocking live binding has returned
\* successfully, the key's file decodes to exactly the in-memory value.
C4_BlockingReadAfterWrite ==
    (/\ last.op = "set"
     /\ held[last.key].kind = "proxy"
     /\ held[last.key].sync
     /\ last.res = "ok")
    => (/\ LastFile \in DOMAIN files
        /\ Parse(files[LastFile]) = Parsed(held[last.key].obj))

Entries == SyncEntries \cup AsyncEntries

\* C5 as stated: of two bind calls in a row that name the same key, the second fails
\* with DuplicateKeyError, whatever the values given and however the first ended.
C5_SecondBindFails ==
    [][(/\ last.op \in Entries /\ last.phase = "call"
        /\ last'.op \in Entries /\ last'.phase = "call"
        /\ last'.key = last.key)
       => (last'.res = "error" /\ last'.err = "DuplicateKeyError")]_vars

\* C5 (amended): a bind call, through any of the four entry points, that gives an
\* object-typed starter value and names a key the registry holds fails with
\* DuplicateKeyError and changes neither the registry nor storage, whether or not
\* the bind that registered the key succeeded and whether or not the key's file exists.
C5_RegisteredKeyRejected ==
    [][(/\ last'.op \in Entries /\ last'.phase = "call"
        /\ last'.key \in OwnKeys(keyToFileMap)
        /\ TypeOf(last'.arg) = "object")
       => (/\ last'.res = "error" /\ last'.err = "DuplicateKeyError"
           /\ keyToFileMap' = keyToFileMap
           /\ dirs' = dirs /\ files' = files
           /\ held' = held /\ tasks' = tasks)]_vars

\* a non-blocking bind of "a" was rejected as a duplicate although the bind that
\* registered "a" returned nothing and no file of "a" exists
C5_Witness ==
    /\ last.op \in AsyncEntries
    /\ last.key = "a"
    /\ last.err = "DuplicateKeyError"
    /\ held["a"].kind = "none"
    /\ "a" \in OwnKeys(keyToFileMap)
    /\ FileOf(keyToFileMap, "a") \notin DOMAIN files

\* C6: under ignoreCashola a bind with a valid key and a mapping or sequence starter
\* touches no storage and returns the starter itself, an assignment on the returned
\* value touches no storage, and a bind with an invalid key fails with InvalidKeyError.
C6_IgnoreSuppressesStorage ==
    [][/\ (/\ ignoreCashola
           /\ last'.op \in Entries /\ last'.phase = "call"
           /\ IsStructured(last'.arg))
          => IF IsValidFilename(last'.key)
             THEN /\ last'.res = "raw"
                  /\ held'[last'.key] = Held("raw", last'.op \in SyncEntries, last'.arg)
                  /\ dirs' = dirs /\ files' = files /\ tasks' = tasks
             ELSE last'.res = "error" /\ last'.err = "InvalidKeyError"
       /\ (last'.op = "set" /\ held[last'.key].kind = "raw")
          => (dirs' = dirs /\ files' = files /\ tasks' = tasks)]_vars

\* C7: a bind under ignoreCashola leaves list() as it was.
C7_IgnoreLeavesRegistry ==
    [][(/\ ignoreCashola
        /\ last'.op \in Entries /\ last'.phase = "call")
       => list' = list]_vars

\* C8: after any sequence of configure calls, ignoreCashola is true when the latest
\* call gave ignoreCashola: true, and otherwise exactly when the environment variable
\* named by the configuration (IGNORE_CASHOLA by default) is "true".
C8_IgnoreStateComputed ==
    ignoreCashola = (explicitIgnore \/ env[envVarName] = "true")

\* C9: the shape of the value stored in a key's file never changes while the file
\* exists (it can only change after the storage was cleared).
C9_ShapeImmutable ==
    [][\A p \in DOMAIN files \cap DOMAIN files' :
          (/\ Parse(files[p]).code = "ok" /\ IsStructured(Parse(files[p]).value)
           /\ Parse(files'[p]).code = "ok" /\ IsStructured(Parse(files'[p]).value))
          => Parse(files'[p]).value.kind = Parse(files[p]).value.kind]_vars

\* C10: on the initial load of a bind, a read failure other than not-found (an I/O
\* error, a file that does not decode) propagates: the bind fails.
C10_ReadFailurePropagates ==
    (/\ BindSettled
     /\ last.read \in {"EIO", "SyntaxError"})
    => last.res = "error"

\* C12: a bind whose starter value is no mapping or sequence fails with
\* TypeKindError, a bind with an invalid key fails with InvalidKeyError, and either
\* way list() and the whole of storage are as before and nothing is left pending.
C12_ValidationBeforeEffects ==
    [][(/\ last'.op \in Entries /\ last'.phase = "call"
        /\ (~IsStructured(last'.arg) \/ ~IsValidFilename(last'.key)))
       => (/\ last'.res = "error"
           /\ last'.err = (IF ~IsStructured(last'.arg) THEN "TypeKindError"
                           ELSE "InvalidKeyError")
           /\ list' = list
           /\ dirs' = dirs /\ files' = files
           /\ tasks' = tasks)]_vars

\* the step wrote no file other than p
WritesOnlyAt(p) ==
    \A q \in DOMAIN files' : (q \notin DOMAIN files \/ files'[q] # files[q]) => q = p

\* C13: a key's location is the one computed from storageDir when it was bound;
\* configure does not change it, and every write of a bind or of an assignment
\* (blocking, non-blocking) goes to that location and to no other file.
C13_LocationFixedAtBind ==
    [][/\ (/\ last'.op \in Entries /\ last'.phase = "call"
           /\ last'.key \notin OwnKeys(keyToFileMap)
           /\ last'.key \in OwnKeys(keyToFileMap'))
          => FileOf(keyToFileMap', last'.key) = createFilePath(storageDir, last'.key)
       /\ (last'.op # "restart")
          => \A k \in OwnKeys(keyToFileMap) :
                /\ k \in OwnKeys(keyToFileMap')
                /\ FileOf(keyToFileMap', k) = FileOf(keyToFileMap, k)
       /\ (/\ last'.op \in Entries \cup {"set", "save"}
           /\ last'.key \in OwnKeys(keyToFileMap'))
          => WritesOnlyAt(FileOf(keyToFileMap', last'.key))
       /\ (/\ last'.op = "set" /\ last'.res = "ok"
           /\ held[last'.key].kind = "proxy" /\ held[last'.key].sync)
          => (/\ FileOf(keyToFileMap, last'.key) \in DOMAIN files'
              /\ files'[FileOf(keyToFileMap, last'.key)] = Stringify(held'[last'.key].obj))]_vars

\* an assignment after storageDir was changed wrote the file in the old directory
C13_Witness ==
    /\ last.op = "set" /\ last.res = "ok"
    /\ storageDir = "alt"
    /\ FileOf(keyToFileMap, "a") = <<".cashola", "a">>
    /\ files[<<".cashola", "a">>] = Stringify(MkObj([f \in {"count"} |-> 1]))
    /\ <<"alt", "a">> \notin DOMAIN files

\* C14: clear / clearSync of a key that this registry never bound, or whose file
\* (at its recorded location) is missing, fails with the not-found error and
\* leaves storage as it was.
C14_ClearOfUnboundFails ==
    [][(/\ last'.op \in ClearEntries
        /\ \/ last'.key \notin OwnKeys(keyToFileMap)
           \/ FileOf(keyToFileMap, last'.key) \notin DOMAIN files)
       => (/\ last'.res = "error" /\ last'.err = "ENOENT"
           /\ dirs' = dirs /\ files' = files)]_vars

\* C15: a clear / clearSync of a bound key that succeeds removes the file at the
\* key's recorded location and changes no other file.
C15_ClearRemovesRecordedFile ==
    [][(/\ last'.op \in ClearEntries /\ last'.res = "ok"
        /\ last'.key \in OwnKeys(keyToFileMap))
       => (/\ FileOf(keyToFileMap, last'.key) \in DOMAIN files
           /\ DOMAIN files' = DOMAIN files \ {FileOf(keyToFileMap, last'.key)}
           /\ \A q \in DOMAIN files' : files'[q] = files[q])]_vars

\* a bind call that finds no file at the key's location creates it from the starter
CreatesFromStarter ==
    (/\ last'.op \in SyncEntries /\ last'.phase = "call"
     /\ last'.key \notin OwnKeys(keyToFileMap)
     /\ IsValidFilename(last'.key)
     /\ IsStructured(last'.arg)
     /\ ~ignoreCashola
     /\ createFilePath(storageDir, last'.key) \notin DOMAIN files)
    => (/\ last'.res = "live"
        /\ held'[last'.key].obj = last'.arg
        /\ storageDir \in dirs'
        /\ createFilePath(storageDir, last'.key) \in DOMAIN files'
        /\ files'[createFilePath(storageDir, last'.key)] = Stringify(last'.arg))

C17_ListInBindOrder ==
    [][IF last'.op \in SyncEntries /\ last'.res \in {"live", "raw"}
       THEN list' = Append(list, last'.key)
       ELSE (last'.op # "restart") => list' = list]_vars

\* C11: an assignment through a blocking binding whose write met an I/O error
\* throws; the failed write of an assignment through a non-blocking binding is
\* never seen: the assignment has returned, and the pending save ends quietly.
C11_WriteErrorsByMode ==
    /\ (/\ last.op = "set" /\ last.fault # "none"
        /\ held[last.key].kind = "proxy" /\ held[last.key].sync)
       => last.res = "error"
    /\ (last.op = "save" /\ last.fault # "none") => last.res # "unhandled"

\* C18: an assignment that the target rejects (Reflect.set returns false) is
\* reported as failed, writes nothing and starts no write, blocking or not.
C18_RejectedAssignmentNotSaved ==
    [][(/\ last'.op = "set"
        /\ held[last'.key].kind = "proxy"
        /\ held[last'.key].frozen)
       => (/\ last'.res = "false"
           /\ held' = held
           /\ dirs' = dirs /\ files' = files
           /\ tasks' = tasks)]_vars

\* an assignment on a frozen non-blocking binding was rejected while that binding's
\* file holds the value of an earlier assignment
C18_Witness ==
    /\ last.op = "set" /\ last.res = "false"
    /\ held["a"].kind = "proxy" /\ ~held["a"].sync /\ held["a"].frozen
    /\ held["a"].obj = MkObj([f \in {"count"} |-> 1])
    /\ FileOf(keyToFileMap, "a") \in DOMAIN files
    /\ files[FileOf(keyToFileMap, "a")] = Stringify(held["a"].obj)

\* every pending call of SpecLive is one the fairness condition names
TasksAreLiveTasks == tasks \subseteq LiveTasks

\* the last step is an assignment through a non-blocking live binding that took effect
AsyncAssigned ==
    /\ last.op = "set" /\ last.res = "ok"
    /\ held[last.key].kind = "proxy" /\ ~held[last.key].sync

\* C19: an assignment through a non-blocking binding starts a write of the value
\* as it is then and leaves the pending writes pending; a step ends at most one
\* pending write, and a write that completes puts its own text in the file.  (So
\* the writes of two assignments can complete in either order.)
C19_IndependentWrites ==
    [][/\ (/\ last'.op = "set" /\ last'.res = "ok"
           /\ held[last'.key].kind = "proxy" /\ ~held[last'.key].sync)
          => (/\ tasks \subseteq tasks'
              /\ SaveOf(last'.key, held'[last'.key].obj) \in tasks'
              /\ files' = files)
       /\ Cardinality(tasks \ tasks') <= 1
       /\ (last'.op = "save" /\ last'.res = "ok")
          => \E t \in tasks \ tasks' :
                /\ FileOf(keyToFileMap, t.key) \in DOMAIN files'
                /\ files'[FileOf(keyToFileMap, t.key)] = t.str]_vars

\* every write that was started has completed, the last of them just now, and
\* the file holds an older value than the one in memory
C19_Witness ==
    /\ last.op = "save" /\ last.res = "ok"
    /\ tasks = {}
    /\ held["a"].kind = "proxy" /\ ~held["a"].sync
    /\ held["a"].obj = MkObj([f \in {"count"} |-> 1])
    /\ files[FileOf(keyToFileMap, "a")] = Stringify(MkObj([f \in {"count"} |-> 0]))

\* C20: an assignment through a non-blocking binding returns with the new value
\* in memory and its write pending, the file not yet touched; and when no other
\* write is pending then and no fs call fails, the file comes to hold the value
\* with that assignment.
C20_EventuallyWritten ==
    /\ [][(/\ last'.op = "set" /\ last'.res = "ok"
           /\ held[last'.key].kind = "proxy" /\ ~held[last'.key].sync)
          => (/\ held'[last'.key].obj # held[last'.key].obj
                 => \E f \in Fields : /\ f \in DOMAIN held'[last'.key].obj.fields
                                      /\ \/ f \notin DOMAIN held[last'.key].obj.fields
                                         \/ held'[last'.key].obj.fields[f] #
                                               held[last'.key].obj.fields[f]
              /\ SaveOf(last'.key, held'[last'.key].obj) \in tasks'
              /\ files' = files)]_vars
    /\ \A v \in LiveValues :
          (AsyncAssigned /\ held["a"].obj = v /\ tasks = {SaveOf("a", v)})
          ~> (/\ "a" \in OwnKeys(keyToFileMap)
              /\ FileOf(keyToFileMap, "a") \in DOMAIN files
              /\ files[FileOf(keyToFileMap, "a")] = Stringify(v))

\* the assignment has returned, memory has the new value, the file the old one
C20_Witness ==
    /\ AsyncAssigned
    /\ held["a"].obj = MkObj([f \in {"count"} |-> 1])
    /\ tasks = {SaveOf("a", held["a"].obj)}
    /\ files[FileOf(keyToFileMap, "a")] = Stringify(EmptyObj)

\* the non-blocking binds of key that are suspended on an fs call
PendingBinds(key) == {t \in tasks : t.entry \in AsyncEntries /\ t.key = key}

\* the bindings of key that exist or are on the way: suspended binds, a live binding
BindingsOf(key) ==
    Cardinality(PendingBinds(key)) + (IF held[key].kind = "proxy" THEN 1 ELSE 0)

\* C21: a non-blocking bind looks the key up and registers it in the step of the
\* call, before its first fs call is awaited, and no later step of the bind touches
\* the registry; so a bind (with an object-typed starter) that names a key while an
\* earlier bind of that key is still suspended fails with DuplicateKeyError and
\* starts nothing, each key has at most one binding suspended or live, and live
\* bindings of a registry have different files.
C21_ConcurrentBindRejected ==
    /\ [][/\ (/\ last'.op \in AsyncEntries /\ last'.phase = "call"
              /\ last'.res \in {"pending", "raw"})
             => (/\ last'.key \notin OwnKeys(keyToFileMap)
                 /\ last'.key \in OwnKeys(keyToFileMap'))
          /\ (last'.phase = "resume") => keyToFileMap' = keyToFileMap
          /\ (/\ last'.op \in Entries /\ last'.phase = "call"
              /\ PendingBinds(last'.key) # {}
              /\ TypeOf(last'.arg) = "object")
             => (/\ last'.res = "error" /\ last'.err = "DuplicateKeyError"
                 /\ keyToFileMap' = keyToFileMap
                 /\ tasks' = tasks /\ held' = held
                 /\ dirs' = dirs /\ files' = files)]_vars
    /\ [](\A k \in Keys : BindingsOf(k) <= 1)
    /\ [](\A k1, k2 \in Keys :
             (held[k1].kind = "proxy" /\ held[k2].kind = "proxy" /\ k1 # k2)
             => FileOf(keyToFileMap, k1) # FileOf(keyToFileMap, k2))

\* a non-blocking bind of "a" was rejected as a duplicate while the first bind of
\* "a" is still suspended on its read and nothing has been returned for "a"
C21_Witness ==
    /\ last.op \in AsyncEntries /\ last.phase = "call"
    /\ last.key = "a"
    /\ last.res = "error" /\ last.err = "DuplicateKeyError"
    /\ \E t \in PendingBinds("a") : t.pc = "read"
    /\ held["a"].kind = "none"

\* C22: a bind fails with DuplicateKeyError only when an earlier bind of this
\* registry registered the key: a bind of a key the registry does not hold (a valid
\* filename such as "constructor" included) is never rejected as a duplicate.
C22_DuplicateOnlyIfRegistered ==
    [][(/\ last'.op \in Entries /\ last'.phase = "call"
        /\ last'.err = "DuplicateKeyError")
       => last'.key \in OwnKeys(keyToFileMap)]_vars

====
